---------------------------- MODULE Spec2Model ----------------------------
(***************************************************************************)
(* The DERP handshake of dersp (src/dersp/src/proto/mod.rs).               *)
(*                                                                         *)
(* Spec        the server side, handle_handshake, against an arbitrary     *)
(*             client that puts bytes on the stream;                       *)
(* SpecClient  the initiating side, exchange_keys, against an arbitrary    *)
(*             server that puts frames on the stream.                      *)
(*                                                                         *)
(* The byte stream from the client to the server is a sequence of messages *)
(* with their encoded lengths and a read offset, so that one read() call   *)
(* returns what the transport has and the buffer holds: any number of      *)
(* bytes from 1 to the buffer size.  Strings the code inspects (header     *)
(* names and values, the hex key) are sequences of characters.             *)
(***************************************************************************)
EXTENDS Integers, Sequences, FiniteSets, TLC

VARIABLES
    sk,         \* the server's SecretKey (argument of handle_handshake)
    pc,         \* position of handle_handshake
    path,       \* the positions handle_handshake has been at, in order
    err,        \* the anyhow error handle_handshake returned, "none" if none
    ret,        \* the Ok value handle_handshake returned, NoRet if none
    httpBuf,    \* buf of finalize_http_phase after its read
    ciBuf,      \* buf of read_client_info after its read
    ci,         \* the (pk, meshkey) read_client_info returned, NoRet before
    log,        \* the read and write calls made on the server's stream, in order
    c2s,        \* messages on the stream client -> server, not yet fully read
    c2sOff,     \* bytes of Head(c2s) already consumed by a read
    c2sClosed,  \* the client has closed its sending half
    nSent,      \* messages the peer has put on its stream so far
    s2c,        \* chunks on the stream server -> client, not yet read
    cpc,        \* position of exchange_keys
    csk,        \* the client's SecretKey (argument of exchange_keys)
    cmesh,      \* the meshkey argument of exchange_keys: None or Some(string)
    cserver,    \* the server key read_server_key returned, NoneKey before
    cerr,       \* the error exchange_keys returned, "none" if none
    cret,       \* the Ok value exchange_keys returned, NoneKey if none
    clog,       \* the read and write calls exchange_keys made, in order
    sipc,       \* position of read_server_info
    sierr,      \* the error read_server_info returned, "none" if none
    simsg,      \* the message read_server_info got from its reader
    hpc,        \* position of a client that runs the whole handshake
    mpc,        \* position of main
    merr,       \* the error main returned, "none" if none
    unit        \* per accepted connection: what its task does with the service lock

vars == <<sk, pc, path, err, ret, httpBuf, ciBuf, ci, log, c2s, c2sOff, c2sClosed, nSent,
          s2c, cpc, csk, cmesh, cserver, cerr, cret, clog,
          sipc, sierr, simsg, hpc, mpc, merr, unit>>

serverVars == <<sk, pc, path, err, ret, httpBuf, ciBuf, ci, log>>
clientVars == <<cpc, csk, cmesh, cserver, cerr, cret, clog>>
infoVars == <<sipc, sierr, simsg>>
mainVars == <<mpc, merr, unit>>
otherVars == <<hpc, mpc, merr, unit>>

-----------------------------------------------------------------------------
(* Bounds of the model *)

\* bytes of a public key in the model (the program's keys have 32)
KeyLen == 2

\* messages an arbitrary peer puts on the stream in one run
MaxSends == 2

-----------------------------------------------------------------------------
(* Program constants *)

UPGRADE_MSG_SIZE == 4096

\* let mut buf = [0; 1024] in read_client_info
CLIENT_INFO_BUF == 1024

\* let mut headers = [httparse::EMPTY_HEADER; 16]
MAX_HEADERS == 16

\* Option<String>
None == [some |-> FALSE, val |-> ""]
Some(str) == [some |-> TRUE, val |-> str]

NoRet == [none |-> TRUE]
NoneKey == <<>>
NoMsg == [kind |-> "none"]
NoBuf == [n |-> 0, first |-> NoMsg, start |-> 0, have |-> 0]

Min(a, b) == IF a < b THEN a ELSE b

-----------------------------------------------------------------------------
(* Keys and the sealed box *)

ServerSecrets == {"s1", "s2"}
ClientSecrets == {"c1", "c2"}

Seed(secret) ==
    CASE secret = "s1" -> 10
      [] secret = "s2" -> 171
      [] secret = "c1" -> 7
      [] secret = "c2" -> 200

\* SecretKey::public: the public key, KeyLen bytes
Public(secret) == [i \in 1..KeyLen |-> (Seed(secret) * i) % 256]

ServerPubs == {Public(s) : s \in ServerSecrets}
ClientPubs == {Public(s) : s \in ClientSecrets}

\* seal(plaintext, sender_secret, recipient_public)
Seal(plain, sender_secret, recipient_public) ==
    [from |-> Public(sender_secret), to |-> recipient_public,
     intact |-> TRUE, plain |-> plain]

\* open(nonce, ciphertext, recipient_secret, sender_public) succeeds only for
\* the pair of keys the box was sealed with and an unaltered ciphertext
CanOpen(box, recipient_secret, sender_public) ==
    /\ box.intact
    /\ box.to = Public(recipient_secret)
    /\ box.from = sender_public

-----------------------------------------------------------------------------
(* Strings as sequences of characters *)

Upper == <<"A","B","C","D","E","F","G","H","I","J","K","L","M",
           "N","O","P","Q","R","S","T","U","V","W","X","Y","Z">>
Lower == <<"a","b","c","d","e","f","g","h","i","j","k","l","m",
           "n","o","p","q","r","s","t","u","v","w","x","y","z">>

\* u8::to_ascii_lowercase on one character
LowerChar(c) ==
    IF \E i \in 1..26 : Upper[i] = c
    THEN Lower[CHOOSE i \in 1..26 : Upper[i] = c]
    ELSE c

\* str::to_ascii_lowercase
to_ascii_lowercase(str) == [i \in 1..Len(str) |-> LowerChar(str[i])]

\* a byte that is not valid UTF-8 wherever it stands
BadByte == "<FF>"

\* std::str::from_utf8 succeeds
from_utf8_ok(bytes) == \A i \in 1..Len(bytes) : bytes[i] # BadByte

HexDigits == <<"0","1","2","3","4","5","6","7","8","9","a","b","c","d","e","f">>

\* faulty variant: "{:x}", no zero padding
HexByteUnpadded(b) ==
    IF b < 16 THEN <<HexDigits[b + 1]>>
    ELSE <<HexDigits[(b \div 16) + 1], HexDigits[(b % 16) + 1]>>

\* write!(hex_key, "{:02x?}", b): one byte as two lower-case hex digits
HexByte(b) == <<HexDigits[(b \div 16) + 1], HexDigits[(b % 16) + 1]>>

RECURSIVE HexKey(_)
\* the loop over pk.as_bytes() that builds hex_key
HexKey(bytes) ==
    IF bytes = <<>> THEN <<>>
    ELSE HexByte(Head(bytes)) \o HexKey(Tail(bytes))

-----------------------------------------------------------------------------
(* Frames *)

MAGIC == "DERP-key"

NoBody == [none |-> TRUE]

Frame(ty, len, decodes, body) ==
    [kind |-> "frame", ty |-> ty, len |-> len, decodes |-> decodes, body |-> body]

\* ServerKey::new(pk).frame()
ServerKeyFrame(pk) ==
    Frame("ServerKey", 13 + KeyLen, TRUE, [magic |-> MAGIC, public_key |-> pk])

\* ServerInfo::default().frame()
ServerInfoFrame == Frame("ServerInfo", 5, TRUE, NoBody)

\* the payload ClientInfo seals: protocol version and mesh key ("" for none)
Payload(meshkey) == [wellformed |-> TRUE, version |-> 2, meshkey |-> meshkey]

\* ClientInfo::new(secret_key, server_key, meshkey).frame()
ClientInfoFrame(secret_key, server_key, meshkey) ==
    Frame("ClientInfo", 96, TRUE,
          [public_key |-> Public(secret_key),
           box |-> Seal(Payload(IF meshkey.some THEN meshkey.val ELSE ""),
                        secret_key, server_key)])

Text(s) == [kind |-> "text", text |-> s]
Chars(cs) == [kind |-> "chars", chars |-> cs]

-----------------------------------------------------------------------------
(* The upgrade request *)

S_Upgrade == <<"U","p","g","r","a","d","e">>
S_upgrade == <<"u","p","g","r","a","d","e">>
S_Connection == <<"C","o","n","n","e","c","t","i","o","n">>
S_connection == <<"c","o","n","n","e","c","t","i","o","n">>
S_websocket == <<"w","e","b","s","o","c","k","e","t">>
S_WebSocket == <<"W","e","b","S","o","c","k","e","t">>
S_derp == <<"d","e","r","p">>
S_DERP == <<"D","E","R","P">>
S_h2c == <<"h","2","c">>
S_close == <<"c","l","o","s","e">>
S_garbled == <<"d","e","r", BadByte>>

Hdr(name, value) == [name |-> name, value |-> value]

\* A request: `head` bytes of request line and headers up to the blank line,
\* `len` bytes in all; the Upgrade and Connection headers it carries, in
\* order, and the number of its other headers
HttpMsg(head, len, syntax, headers, nOther) ==
    [kind |-> "http", head |-> head, len |-> len, syntax |-> syntax,
     headers |-> headers, nOther |-> nOther]

UpgradeHeaders ==
    {Hdr(S_Upgrade, S_derp), Hdr(S_Upgrade, S_DERP), Hdr(S_Upgrade, S_WebSocket),
     Hdr(S_Upgrade, S_h2c), Hdr(S_upgrade, S_h2c), Hdr(S_Upgrade, S_garbled)}

ConnectionHeaders ==
    {Hdr(S_Connection, S_Upgrade), Hdr(S_Connection, S_close),
     Hdr(S_connection, S_close)}

HeaderLists ==
    {<<>>} \cup {<<u>> : u \in UpgradeHeaders} \cup {<<c>> : c \in ConnectionHeaders}
           \cup {<<u, c>> : u \in UpgradeHeaders, c \in ConnectionHeaders}

\* the requests a client may open the stream with
Requests ==
    {HttpMsg(200, 200, "valid", hs, 0) : hs \in HeaderLists}
    \cup {HttpMsg(n, n, "valid", <<>>, 0) :
            n \in {16, UPGRADE_MSG_SIZE - 1, UPGRADE_MSG_SIZE, UPGRADE_MSG_SIZE + 1}}
    \cup {HttpMsg(200, 200, "valid", <<>>, k) : k \in {MAX_HEADERS, MAX_HEADERS + 1}}
    \cup {HttpMsg(200, 5000, "valid", <<>>, 0), HttpMsg(200, 200, "malformed", <<>>, 0)}

\* one header of the loop in validate_headers
CheckHeader(h) ==
    IF h.name = S_Upgrade /\ ~from_utf8_ok(h.value) THEN "Utf8Error"
    ELSE IF h.name = S_Upgrade
            /\ to_ascii_lowercase(h.value) \notin {S_websocket, S_derp}
         THEN "Unexpected Upgrade value"
    ELSE IF h.name = S_Connection /\ ~from_utf8_ok(h.value) THEN "Utf8Error"
    ELSE IF h.name = S_Connection /\ to_ascii_lowercase(h.value) # S_upgrade
         THEN "Unexpected Connection value"
    ELSE "ok"

RECURSIVE validate_headers(_)
validate_headers(headers) ==
    IF headers = <<>> THEN "ok"
    ELSE IF CheckHeader(Head(headers)) # "ok" THEN CheckHeader(Head(headers))
    ELSE validate_headers(Tail(headers))

-----------------------------------------------------------------------------
(* The stream client -> server and one read() on it *)

RECURSIVE Total(_)
Total(q) == IF q = <<>> THEN 0 ELSE Head(q).len + Total(Tail(q))

RECURSIVE Drop(_, _, _)
\* the stream after n of its bytes were read
Drop(q, off, n) ==
    IF n = 0 \/ q = <<>> THEN [q |-> q, off |-> off]
    ELSE IF n >= Head(q).len - off THEN Drop(Tail(q), 0, n - (Head(q).len - off))
    ELSE [q |-> q, off |-> off + n]

\* byte counts at which the transport may cut what it delivers
Cuts(q, off) ==
    {1} \cup {Total(SubSeq(q, 1, i)) - off : i \in 1..Len(q)}
        \cup (IF q # <<>> /\ Head(q).kind = "http" /\ off = 0
              THEN {Head(q).head} ELSE {})

\* what read(&mut buf) may return for a buffer of cap bytes: 0 at end of
\* stream only, else 1..min(available, cap); nothing while it would block
ReadResults(q, off, closed, cap) ==
    IF Total(q) - off = 0 THEN (IF closed THEN {0} ELSE {})
    ELSE {k \in Cuts(q, off) \cup {Min(Total(q) - off, cap)} :
            1 <= k /\ k <= Min(Total(q) - off, cap)}

\* the buffer after a read of n bytes: the message its first byte belongs
\* to, where in that message it starts and how much of it it holds; the
\* rest of the buffer stays zero
BufView(q, off, n) ==
    IF n = 0 THEN [n |-> 0, first |-> NoMsg, start |-> 0, have |-> 0]
    ELSE [n |-> n, first |-> Head(q), start |-> off,
          have |-> Min(n, Head(q).len - off)]

-----------------------------------------------------------------------------
(* What an arbitrary client sends after its request *)

ClientInfoFrames ==
    LET base == ClientInfoFrame("c1", Public("s1"), None) IN
    {ClientInfoFrame(c, spk, m) :
        c \in ClientSecrets, spk \in ServerPubs, m \in {None, Some("mk")}}
    \cup {[base EXCEPT !.decodes = FALSE],
          [base EXCEPT !.body.public_key = Public("c2")],
          [base EXCEPT !.body.box.intact = FALSE],
          [base EXCEPT !.body.box.plain.wellformed = FALSE],
          [base EXCEPT !.len = CLIENT_INFO_BUF + 1]}

OtherFrames ==
    {Frame(ty, 40, TRUE, NoBody) :
        ty \in {"ForwardPacket", "WatchConns", "PeerPresent", "ServerKey",
                "ServerInfo", "Unknown"}}

ClientFrames == ClientInfoFrames \cup OtherFrames

-----------------------------------------------------------------------------
(* handle_handshake *)

LogEntry(op, by, ok, data) == [op |-> op, by |-> by, ok |-> ok, data |-> data]

\* httparse's Request::parse on the zero-padded buffer: the results it may give
ParseStatus(b) ==
    IF b.first.kind # "http" \/ b.start # 0 THEN {"Error"}
    ELSE IF b.first.syntax = "malformed" THEN {"Error"}
    ELSE IF b.have < b.first.head THEN {"Partial", "Error"}
    ELSE IF Len(b.first.headers) + b.first.nOther > MAX_HEADERS THEN {"Error"}
    ELSE {"Complete"}

\* ensure!(n < UPGRADE_MSG_SIZE, "initial message too big") fails
TooBig(n) == ~(n < UPGRADE_MSG_SIZE)

\* the checks of finalize_http_phase between its read and its write: "ok",
\* or the error it returns
finalize_http_checks(b) ==
    IF ~(b.n > 0) THEN {"empty initiall message"}
    ELSE IF TooBig(b.n) THEN {"initial message too big"}
    ELSE {IF st = "Error" THEN "parse error"
          ELSE IF st = "Partial" THEN "incomplete request"
          ELSE validate_headers(b.first.headers) : st \in ParseStatus(b)}

\* faulty variant: the response without the ServerKey frame behind it
UpgradeResponseNoKey(secret) ==
    <<Text("HTTP/1.1 101 Switching Protocols\r\n"),
      Text("Upgrade: DERP\r\n"),
      Text("Connection: Upgrade\r\n"),
      Text("Derp-Version: 2\r\n"),
      Text("Derp-Public-Key: "),
      Chars(HexKey(Public(secret))),
      Text("\r\n\r\n")>>

\* the response finalize_http_phase builds, chunk by chunk
UpgradeResponse(secret) ==
    <<Text("HTTP/1.1 101 Switching Protocols\r\n"),
      Text("Upgrade: DERP\r\n"),
      Text("Connection: Upgrade\r\n"),
      Text("Derp-Version: 2\r\n"),
      Text("Derp-Public-Key: "),
      Chars(HexKey(Public(secret))),
      Text("\r\n\r\n"),
      ServerKeyFrame(Public(secret))>>

\* FrameType::get_frame_type(&buf): the type the first byte of buf stands for
get_frame_type(b) ==
    IF b.n = 0 \/ b.start # 0 \/ b.first.kind # "frame" THEN "Unknown"
    ELSE b.first.ty

\* Frame::<ClientInfo>::decode(&mut buf.as_slice()) and ClientInfo::complete(sk)
\* on the buffer: "ok" or the errors they may give
ClientInfoOutcomes(b, secret) ==
    IF b.have < b.first.len THEN {"Decode error", "decrypt error"}
    ELSE IF ~b.first.decodes THEN {"Decode error"}
    ELSE IF ~CanOpen(b.first.body.box, secret, b.first.body.public_key)
         THEN {"decrypt error"}
    ELSE IF ~b.first.body.box.plain.wellformed THEN {"invalid payload"}
    ELSE {"ok"}

\* faulty variant: the errors of decode and complete are dropped
read_client_info_unchecked(b, secret) ==
    IF get_frame_type(b) # "ClientInfo" THEN {"Unexpected message"}
    ELSE {"ok"}

\* faulty variant: the frame type is not matched, the buffer is decoded as it is
read_client_info_untyped(b, secret) ==
    IF get_frame_type(b) # "ClientInfo" THEN {"Decode error"}
    ELSE ClientInfoOutcomes(b, secret)

\* the checks of read_client_info after its read
read_client_info_checks(b, secret) ==
    IF get_frame_type(b) # "ClientInfo" THEN {"Unexpected message"}
    ELSE ClientInfoOutcomes(b, secret)

\* faulty variant: the mesh key is passed on without the is_empty test
ClientInfoResultAlwaysSome(b) ==
    [pk |-> b.first.body.public_key,
     meshkey |-> Some(b.first.body.box.plain.meshkey)]

\* the Ok value of read_client_info
ClientInfoResult(b) ==
    [pk |-> b.first.body.public_key,
     meshkey |-> IF b.first.body.box.plain.meshkey = "" THEN None
                 ELSE Some(b.first.body.box.plain.meshkey)]

Goto(next) == pc' = next /\ path' = Append(path, next)

Fail(reason) == Goto("Closed") /\ err' = reason

\* faulty variant: a failed read is attempted again on the same connection
FinalizeHttpReadRetried ==
    /\ pc = "AwaitingUpgrade"
    /\ log' = Append(log, LogEntry("read", "finalize_http_phase", FALSE, <<>>))
    /\ UNCHANGED <<sk, pc, path, err, ret, httpBuf, ciBuf, ci>>
    /\ UNCHANGED <<c2s, c2sOff, c2sClosed, nSent, s2c>>
    /\ UNCHANGED clientVars
    /\ UNCHANGED infoVars
    /\ UNCHANGED otherVars

\* rw.read(&mut buf).await? of finalize_http_phase fails
FinalizeHttpReadFails ==
    /\ pc = "AwaitingUpgrade"
    /\ Fail("io error")
    /\ log' = Append(log, LogEntry("read", "finalize_http_phase", FALSE, <<>>))
    /\ UNCHANGED <<sk, ret, httpBuf, ciBuf, ci, c2s, c2sOff, c2sClosed, nSent, s2c>>
    /\ UNCHANGED clientVars
    /\ UNCHANGED infoVars
    /\ UNCHANGED otherVars

\* faulty variant: a rejected request is answered with an error response
FinalizeHttpReadReplies ==
    /\ pc = "AwaitingUpgrade"
    /\ \E n \in ReadResults(c2s, c2sOff, c2sClosed, UPGRADE_MSG_SIZE) :
         /\ httpBuf' = BufView(c2s, c2sOff, n)
         /\ c2s' = Drop(c2s, c2sOff, n).q
         /\ c2sOff' = Drop(c2s, c2sOff, n).off
         /\ \E o \in finalize_http_checks(BufView(c2s, c2sOff, n)) :
               IF o = "ok"
               THEN Goto("UpgradeSent") /\ err' = err /\ s2c' = s2c
               ELSE Fail(o) /\ s2c' = Append(s2c, Text("HTTP/1.1 400 Bad Request\r\n\r\n"))
    /\ log' = Append(log, LogEntry("read", "finalize_http_phase", TRUE, <<>>))
    /\ UNCHANGED <<sk, ret, ciBuf, ci, c2sClosed, nSent>>
    /\ UNCHANGED clientVars
    /\ UNCHANGED infoVars
    /\ UNCHANGED otherVars

\* finalize_http_phase from its read to the line before its write
FinalizeHttpRead ==
    /\ pc = "AwaitingUpgrade"
    /\ \E n \in ReadResults(c2s, c2sOff, c2sClosed, UPGRADE_MSG_SIZE) :
         /\ httpBuf' = BufView(c2s, c2sOff, n)
         /\ c2s' = Drop(c2s, c2sOff, n).q
         /\ c2sOff' = Drop(c2s, c2sOff, n).off
         /\ \E o \in finalize_http_checks(BufView(c2s, c2sOff, n)) :
               IF o = "ok" THEN Goto("UpgradeSent") /\ err' = err ELSE Fail(o)
    /\ log' = Append(log, LogEntry("read", "finalize_http_phase", TRUE, <<>>))
    /\ UNCHANGED <<sk, ret, ciBuf, ci, c2sClosed, nSent, s2c>>
    /\ UNCHANGED clientVars
    /\ UNCHANGED infoVars
    /\ UNCHANGED otherVars

\* rw.write_all(&response).await? fails, after any part of the response
FinalizeHttpWriteFails ==
    /\ pc = "UpgradeSent"
    /\ \E k \in 0..(Len(UpgradeResponse(sk)) - 1) :
         /\ s2c' = s2c \o SubSeq(UpgradeResponse(sk), 1, k)
         /\ log' = Append(log, LogEntry("write", "finalize_http_phase", FALSE,
                                        SubSeq(UpgradeResponse(sk), 1, k)))
    /\ Fail("io error")
    /\ UNCHANGED <<sk, ret, httpBuf, ciBuf, ci, c2s, c2sOff, c2sClosed, nSent>>
    /\ UNCHANGED clientVars
    /\ UNCHANGED infoVars
    /\ UNCHANGED otherVars

\* rw.write_all(&response).await? and the return of finalize_http_phase
FinalizeHttpWrite ==
    /\ pc = "UpgradeSent"
    /\ s2c' = s2c \o UpgradeResponse(sk)
    /\ log' = Append(log, LogEntry("write", "finalize_http_phase", TRUE,
                                   UpgradeResponse(sk)))
    /\ Goto("AwaitingClientInfo")
    /\ UNCHANGED <<sk, err, ret, httpBuf, ciBuf, ci, c2s, c2sOff, c2sClosed, nSent>>
    /\ UNCHANGED clientVars
    /\ UNCHANGED infoVars
    /\ UNCHANGED otherVars

\* reader.read(&mut buf).await? of read_client_info fails
ReadClientInfoFails ==
    /\ pc = "AwaitingClientInfo"
    /\ Fail("io error")
    /\ log' = Append(log, LogEntry("read", "read_client_info", FALSE, <<>>))
    /\ UNCHANGED <<sk, ret, httpBuf, ciBuf, ci, c2s, c2sOff, c2sClosed, nSent, s2c>>
    /\ UNCHANGED clientVars
    /\ UNCHANGED infoVars
    /\ UNCHANGED otherVars

\* read_client_info
ReadClientInfo ==
    /\ pc = "AwaitingClientInfo"
    /\ \E n \in ReadResults(c2s, c2sOff, c2sClosed, CLIENT_INFO_BUF) :
         /\ ciBuf' = BufView(c2s, c2sOff, n)
         /\ c2s' = Drop(c2s, c2sOff, n).q
         /\ c2sOff' = Drop(c2s, c2sOff, n).off
         /\ \E o \in read_client_info_checks(BufView(c2s, c2sOff, n), sk) :
               IF o = "ok"
               THEN /\ Goto("Authenticated")
                    /\ ci' = ClientInfoResult(BufView(c2s, c2sOff, n))
                    /\ err' = err
               ELSE Fail(o) /\ ci' = ci
    /\ log' = Append(log, LogEntry("read", "read_client_info", TRUE, <<>>))
    /\ UNCHANGED <<sk, ret, httpBuf, c2sClosed, nSent, s2c>>
    /\ UNCHANGED clientVars
    /\ UNCHANGED infoVars
    /\ UNCHANGED otherVars

\* writer.write_all(&buf) of write_server_info fails
WriteServerInfoFails ==
    /\ pc = "Authenticated"
    /\ Fail("io error")
    /\ log' = Append(log, LogEntry("write", "write_server_info", FALSE, <<>>))
    /\ UNCHANGED <<sk, ret, httpBuf, ciBuf, ci, c2s, c2sOff, c2sClosed, nSent, s2c>>
    /\ UNCHANGED clientVars
    /\ UNCHANGED infoVars
    /\ UNCHANGED otherVars

\* faulty variant: Ok((pk, meshkey)) without the ServerInfo write
WriteServerInfoSkipped ==
    /\ pc = "Authenticated"
    /\ Goto("Returned")
    /\ ret' = ci
    /\ UNCHANGED <<sk, err, httpBuf, ciBuf, ci, log, c2s, c2sOff, c2sClosed, nSent, s2c>>
    /\ UNCHANGED clientVars
    /\ UNCHANGED infoVars
    /\ UNCHANGED otherVars

\* write_server_info and Ok((pk, meshkey))
WriteServerInfo ==
    /\ pc = "Authenticated"
    /\ s2c' = Append(s2c, ServerInfoFrame)
    /\ log' = Append(log, LogEntry("write", "write_server_info", TRUE,
                                   <<ServerInfoFrame>>))
    /\ Goto("Returned")
    /\ ret' = ci
    /\ UNCHANGED <<sk, err, httpBuf, ciBuf, ci, c2s, c2sOff, c2sClosed, nSent>>
    /\ UNCHANGED clientVars
    /\ UNCHANGED infoVars
    /\ UNCHANGED otherVars

Running == pc \notin {"Returned", "Closed"}

\* the client puts its next message on the stream: a request first
ClientSends ==
    /\ Running /\ ~c2sClosed /\ nSent < MaxSends
    /\ \E m \in (IF nSent = 0 THEN Requests ELSE ClientFrames) :
         c2s' = Append(c2s, m)
    /\ nSent' = nSent + 1
    /\ UNCHANGED <<c2sOff, c2sClosed, s2c>>
    /\ UNCHANGED serverVars
    /\ UNCHANGED clientVars
    /\ UNCHANGED infoVars
    /\ UNCHANGED otherVars

\* the client closes its sending half
ClientCloses ==
    /\ Running /\ ~c2sClosed
    /\ c2sClosed' = TRUE
    /\ UNCHANGED <<c2s, c2sOff, nSent, s2c>>
    /\ UNCHANGED serverVars
    /\ UNCHANGED clientVars
    /\ UNCHANGED infoVars
    /\ UNCHANGED otherVars

Init ==
    /\ sk \in ServerSecrets
    /\ pc = "AwaitingUpgrade" /\ path = <<"AwaitingUpgrade">>
    /\ err = "none" /\ ret = NoRet /\ ci = NoRet
    /\ httpBuf = NoBuf /\ ciBuf = NoBuf
    /\ log = <<>>
    /\ c2s = <<>> /\ c2sOff = 0 /\ c2sClosed = FALSE /\ nSent = 0
    /\ s2c = <<>>
    /\ cpc = "idle" /\ csk = "c1" /\ cmesh = None
    /\ cserver = NoneKey /\ cerr = "none" /\ cret = NoneKey /\ clog = <<>>
    /\ sipc = "idle" /\ sierr = "none" /\ simsg = NoMsg /\ hpc = "idle"
    /\ mpc = "idle" /\ merr = "none" /\ unit = <<>>

Next ==
    \/ FinalizeHttpReadFails
    \/ FinalizeHttpRead
    \/ FinalizeHttpWriteFails
    \/ FinalizeHttpWrite
    \/ ReadClientInfoFails
    \/ ReadClientInfo
    \/ WriteServerInfoFails
    \/ WriteServerInfo
    \/ ClientSends
    \/ ClientCloses

Spec == Init /\ [][Next]_vars

-----------------------------------------------------------------------------
(* exchange_keys *)

\* what an arbitrary server may send as its first frames
ServerFrames ==
    {Frame("ServerKey", 13 + KeyLen, d, [magic |-> m, public_key |-> spk]) :
        d \in BOOLEAN, m \in {MAGIC, "DERP-???"}, spk \in ServerPubs}
    \cup {Frame(ty, 40, TRUE, NoBody) :
            ty \in {"ClientInfo", "ServerInfo", "ForwardPacket", "WatchConns",
                    "PeerPresent", "Unknown"}}
    \cup {Frame("ServerInfo", 40, FALSE, NoBody)}

\* ServerKey::validate_magic succeeds
validate_magic(server_key) == server_key.magic = MAGIC

\* faulty variant: validate_magic is not called
read_server_key_no_magic(message) ==
    IF message.ty # "ServerKey" THEN "Unexpected message"
    ELSE IF ~message.decodes THEN "Decode error"
    ELSE "ok"

\* the match of read_server_key and its validate_magic: "ok" or the error
read_server_key_checks(message) ==
    IF message.ty # "ServerKey" THEN "Unexpected message"
    ELSE IF ~message.decodes THEN "Decode error"
    ELSE IF ~validate_magic(message.body) THEN "invalid magic"
    ELSE "ok"

\* the frame exchange_keys writes once it holds server_key
ExchangeKeysFrame(secret_key, server_key, meshkey) ==
    ClientInfoFrame(secret_key, server_key, meshkey)

CFail(reason) == cpc' = "Failed" /\ cerr' = reason

\* reader.get_next_message().await? of read_server_key fails
ReadServerKeyFails ==
    /\ cpc = "read_server_key"
    /\ CFail("io error")
    /\ clog' = Append(clog, LogEntry("read", "read_server_key", FALSE, <<>>))
    /\ UNCHANGED <<csk, cmesh, cserver, cret>>
    /\ UNCHANGED <<c2s, c2sOff, c2sClosed, nSent, s2c>>
    /\ UNCHANGED serverVars
    /\ UNCHANGED infoVars
    /\ UNCHANGED otherVars

\* read_server_key: the next complete frame of the stream, matched and checked
ReadServerKey ==
    /\ cpc = "read_server_key"
    /\ s2c # <<>>
    /\ s2c' = Tail(s2c)
    /\ clog' = Append(clog, LogEntry("read", "read_server_key", TRUE, <<Head(s2c)>>))
    /\ IF read_server_key_checks(Head(s2c)) = "ok"
       THEN /\ cserver' = Head(s2c).body.public_key
            /\ cpc' = "write_client_info"
            /\ cerr' = cerr
       ELSE /\ CFail(read_server_key_checks(Head(s2c)))
            /\ cserver' = cserver
    /\ UNCHANGED <<csk, cmesh, cret>>
    /\ UNCHANGED <<c2s, c2sOff, c2sClosed, nSent>>
    /\ UNCHANGED serverVars
    /\ UNCHANGED infoVars
    /\ UNCHANGED otherVars

\* writer.write_all(&buf) of write_client_info fails
WriteClientInfoFails ==
    /\ cpc = "write_client_info"
    /\ CFail("io error")
    /\ clog' = Append(clog, LogEntry("write", "write_client_info", FALSE, <<>>))
    /\ UNCHANGED <<csk, cmesh, cserver, cret>>
    /\ UNCHANGED <<c2s, c2sOff, c2sClosed, nSent, s2c>>
    /\ UNCHANGED serverVars
    /\ UNCHANGED infoVars
    /\ UNCHANGED otherVars

\* ClientInfo::new, write_client_info and Ok(server_key)
WriteClientInfo ==
    /\ cpc = "write_client_info"
    /\ c2s' = Append(c2s, ExchangeKeysFrame(csk, cserver, cmesh))
    /\ clog' = Append(clog, LogEntry("write", "write_client_info", TRUE,
                                     <<ExchangeKeysFrame(csk, cserver, cmesh)>>))
    /\ cpc' = "Returned"
    /\ cret' = cserver
    /\ UNCHANGED <<csk, cmesh, cserver, cerr>>
    /\ UNCHANGED <<c2sOff, c2sClosed, nSent, s2c>>
    /\ UNCHANGED serverVars
    /\ UNCHANGED infoVars
    /\ UNCHANGED otherVars

\* the server puts a frame on the stream
ServerSends ==
    /\ cpc \notin {"Returned", "Failed"} /\ nSent < MaxSends
    /\ \E f \in ServerFrames : s2c' = Append(s2c, f)
    /\ nSent' = nSent + 1
    /\ UNCHANGED <<c2s, c2sOff, c2sClosed>>
    /\ UNCHANGED serverVars
    /\ UNCHANGED clientVars
    /\ UNCHANGED infoVars
    /\ UNCHANGED otherVars

\* the test of read_server_info on the message it got: "ok" or the error
read_server_info_checks(message) ==
    IF message.ty # "ServerInfo" THEN "Invalid frame type" ELSE "ok"

\* derp_reader.get_next_message().await? of read_server_info fails
ReadServerInfoFails ==
    /\ cpc = "Returned" /\ sipc = "idle"
    /\ sipc' = "Failed" /\ sierr' = "io error"
    /\ UNCHANGED <<simsg, c2s, c2sOff, c2sClosed, nSent, s2c>>
    /\ UNCHANGED serverVars
    /\ UNCHANGED clientVars
    /\ UNCHANGED otherVars

\* read_server_info, called once exchange_keys has returned Ok
ReadServerInfo ==
    /\ cpc = "Returned" /\ sipc = "idle"
    /\ s2c # <<>>
    /\ s2c' = Tail(s2c)
    /\ simsg' = Head(s2c)
    /\ IF read_server_info_checks(Head(s2c)) = "ok"
       THEN sipc' = "Returned" /\ sierr' = sierr
       ELSE sipc' = "Failed" /\ sierr' = read_server_info_checks(Head(s2c))
    /\ UNCHANGED <<c2s, c2sOff, c2sClosed, nSent>>
    /\ UNCHANGED serverVars
    /\ UNCHANGED clientVars
    /\ UNCHANGED otherVars

InitClient ==
    /\ csk \in ClientSecrets
    /\ cmesh \in {None, Some("mk")}
    /\ cpc = "read_server_key"
    /\ cserver = NoneKey /\ cerr = "none" /\ cret = NoneKey /\ clog = <<>>
    /\ c2s = <<>> /\ c2sOff = 0 /\ c2sClosed = FALSE /\ nSent = 0
    /\ s2c = <<>>
    /\ sk = "s1" /\ pc = "idle" /\ path = <<>>
    /\ err = "none" /\ ret = NoRet /\ ci = NoRet
    /\ httpBuf = NoBuf /\ ciBuf = NoBuf /\ log = <<>>
    /\ sipc = "idle" /\ sierr = "none" /\ simsg = NoMsg /\ hpc = "idle"
    /\ mpc = "idle" /\ merr = "none" /\ unit = <<>>

NextClient ==
    \/ ReadServerKeyFails
    \/ ReadServerKey
    \/ WriteClientInfoFails
    \/ WriteClientInfo
    \/ ReadServerInfoFails
    \/ ReadServerInfo
    \/ ServerSends

SpecClient == InitClient /\ [][NextClient]_vars

-----------------------------------------------------------------------------
(* Properties *)

Last(seq) == seq[Len(seq)]

IsPrefix(p, seq) == Len(p) <= Len(seq) /\ SubSeq(seq, 1, Len(p)) = p

IsServerKey(chunk) == chunk.kind = "frame" /\ chunk.ty = "ServerKey"

\* C1: the ServerKey frame is the first frame the server writes, and the read of
\* read_client_info is made only after the write of the 101 response with the
\* ServerKey frame behind it has completed.
C1_ServerKeyFirst ==
    /\ \A j \in 1..Len(log) :
          log[j].by = "read_client_info" =>
             \E i \in 1..(j - 1) :
                /\ log[i].op = "write" /\ log[i].ok
                /\ log[i].data # <<>> /\ IsServerKey(Last(log[i].data))
    /\ \A i \in 1..Len(s2c) :
          (s2c[i].kind = "frame" /\ \A j \in 1..(i - 1) : s2c[j].kind # "frame")
             => s2c[i].ty = "ServerKey"

C1_Witness ==
    /\ Len(log) >= 3
    /\ log[3].by = "read_client_info" /\ log[3].ok
    /\ ciBuf.n > 0

Chain == <<"AwaitingUpgrade", "UpgradeSent", "AwaitingClientInfo", "Authenticated",
           "Returned">>

C2_Positions ==
    /\ pc = "Returned" =>
          /\ path = Chain
          /\ err = "none" /\ ret # NoRet
          /\ Len(log) = 4
          /\ \A i \in 1..4 : log[i].ok
          /\ Last(log) = LogEntry("write", "write_server_info", TRUE, <<ServerInfoFrame>>)
          /\ Last(s2c) = ServerInfoFrame
    /\ pc = "Closed" =>
          /\ err # "none" /\ ret = NoRet
          /\ Last(path) = "Closed"
          /\ Len(path) <= Len(Chain)
          /\ IsPrefix(SubSeq(path, 1, Len(path) - 1), Chain)
    /\ pc \notin {"Returned", "Closed"} =>
          /\ IsPrefix(path, Chain) /\ pc = Last(path)
          /\ err = "none" /\ ret = NoRet

\* C2: handle_handshake returns Ok only after AwaitingUpgrade, UpgradeSent,
\* AwaitingClientInfo and Authenticated, in that order and once each, with the
\* ServerInfo write as its last step; a failing step ends it with an error at
\* once, and no read or write follows.
C2_HandshakeOrder ==
    /\ []C2_Positions
    /\ [][pc = "Closed" => UNCHANGED <<pc, path, err, ret, log, s2c, c2s, c2sOff>>]_vars

C2_Witness == pc = "Returned" /\ path = Chain

UpgradeRead == Len(log) >= 1 /\ log[1].by = "finalize_http_phase" /\ log[1].ok

ClientInfoRead == Len(log) >= 3 /\ log[3].by = "read_client_info" /\ log[3].ok

Accepted == \E i \in 1..Len(path) : path[i] = "UpgradeSent"

\* the buffer holds the whole head of a request httparse can parse
ParsedRequest(b) ==
    /\ b.n > 0 /\ b.n < UPGRADE_MSG_SIZE
    /\ b.first.kind = "http" /\ b.first.syntax = "valid"
    /\ b.have >= b.first.head
    /\ Len(b.first.headers) + b.first.nOther <= MAX_HEADERS

Named(h, name) == to_ascii_lowercase(h.name) = name

NoSuchHeaders(hs) ==
    \A i \in 1..Len(hs) : ~Named(hs[i], S_upgrade) /\ ~Named(hs[i], S_connection)

HeaderValuesAllowed(hs) ==
    \A i \in 1..Len(hs) :
       /\ Named(hs[i], S_upgrade) =>
             to_ascii_lowercase(hs[i].value) \in {S_derp, S_websocket}
       /\ Named(hs[i], S_connection) => to_ascii_lowercase(hs[i].value) = S_upgrade

\* C3: a request whose Upgrade header is not derp or websocket, or whose
\* Connection header is not upgrade (values compared without case), is
\* rejected; a valid request with neither header is accepted.
C3_HeadersValidated ==
    (UpgradeRead /\ ParsedRequest(httpBuf)) =>
       /\ ~HeaderValuesAllowed(httpBuf.first.headers) => ~Accepted
       /\ NoSuchHeaders(httpBuf.first.headers) => Accepted

\* the buffer holds a ClientInfo frame from its first byte on
IsClientInfo(b) ==
    b.n > 0 /\ b.start = 0 /\ b.first.kind = "frame" /\ b.first.ty = "ClientInfo"

BadClientInfo(b, secret) ==
    /\ IsClientInfo(b)
    /\ \/ b.have < b.first.len
       \/ ~b.first.decodes
       \/ ~CanOpen(b.first.body.box, secret, b.first.body.public_key)
       \/ ~b.first.body.box.plain.wellformed

NoServerInfoWritten ==
    /\ \A i \in 1..Len(s2c) : ~(s2c[i].kind = "frame" /\ s2c[i].ty = "ServerInfo")
    /\ \A i \in 1..Len(log) : log[i].by # "write_server_info"

\* C4: a ClientInfo frame that does not decode, does not decrypt with the
\* server's secret key and the client key it carries, or does not validate ends
\* handle_handshake with an error: ServerInfo is not written and no key or
\* mesh key is returned.
C4_BadClientInfoRejected ==
    (ClientInfoRead /\ BadClientInfo(ciBuf, sk)) =>
       /\ pc = "Closed"
       /\ err \in {"Decode error", "decrypt error", "invalid payload"}
       /\ ret = NoRet /\ ci = NoRet
       /\ NoServerInfoWritten

C4_Witness ==
    /\ ClientInfoRead /\ BadClientInfo(ciBuf, sk)
    /\ ciBuf.have = ciBuf.first.len /\ ciBuf.first.decodes
    /\ err = "decrypt error"

\* C5: a first frame of any type but ClientInfo fails the handshake, so that
\* nothing but the identity of a ClientInfo frame is ever returned.
C5_OnlyClientInfoAccepted ==
    /\ (/\ ClientInfoRead
        /\ ciBuf.n > 0 /\ ciBuf.start = 0
        /\ ciBuf.first.kind = "frame" /\ ciBuf.first.ty # "ClientInfo")
          => (pc = "Closed" /\ err = "Unexpected message" /\ ret = NoRet /\ ci = NoRet)
    /\ pc \in {"Authenticated", "Returned"} => IsClientInfo(ciBuf)
    /\ ret # NoRet => (IsClientInfo(ciBuf) /\ DOMAIN ret = {"pk", "meshkey"})

C5_Witness ==
    /\ ClientInfoRead /\ ciBuf.n > 0 /\ ciBuf.start = 0
    /\ ciBuf.first.kind = "frame" /\ ciBuf.first.ty = "ForwardPacket"
    /\ pc = "Closed"

\* C6: the first message is rejected for its size exactly when the read
\* returns zero bytes or the message is longer than 4096 bytes; a well-formed
\* request of 1 to 4096 bytes is not rejected as too big.  (Stated for a read
\* that returns all of the message the buffer has room for.)
C6_SizeRejection ==
    (UpgradeRead /\ (httpBuf.n = 0 \/ httpBuf.n = Min(httpBuf.first.len, UPGRADE_MSG_SIZE))) =>
       /\ err \in {"empty initiall message", "initial message too big"}
             <=> (httpBuf.n = 0 \/ httpBuf.first.len > UPGRADE_MSG_SIZE)
       /\ (/\ httpBuf.n > 0
           /\ httpBuf.first.syntax = "valid"
           /\ httpBuf.first.len >= 1 /\ httpBuf.first.len <= UPGRADE_MSG_SIZE)
             => err # "initial message too big"

HexVal(ch) == (CHOOSE i \in 1..16 : HexDigits[i] = ch) - 1

RECURSIVE HexDecode(_)
HexDecode(cs) ==
    IF cs = <<>> THEN <<>>
    ELSE <<16 * HexVal(cs[1]) + HexVal(cs[2])>> \o HexDecode(SubSeq(cs, 3, Len(cs)))

\* C7: the accepted upgrade is answered in one write: the fixed lines in
\* order, the hex key (two digits a byte) of the server's public key, the
\* blank line, then the ServerKey frame carrying that same key.
C7_UpgradeResponse ==
    /\ \A i \in 1..Len(log) :
          (log[i].op = "write" /\ log[i].by = "finalize_http_phase" /\ log[i].ok) =>
             /\ i = 2
             /\ Len(log[i].data) = 8
             /\ log[i].data[1] = Text("HTTP/1.1 101 Switching Protocols\r\n")
             /\ log[i].data[2] = Text("Upgrade: DERP\r\n")
             /\ log[i].data[3] = Text("Connection: Upgrade\r\n")
             /\ log[i].data[4] = Text("Derp-Version: 2\r\n")
             /\ log[i].data[5] = Text("Derp-Public-Key: ")
             /\ log[i].data[6].kind = "chars"
             /\ Len(log[i].data[6].chars) = 2 * KeyLen
             /\ HexDecode(log[i].data[6].chars) = Public(sk)
             /\ log[i].data[7] = Text("\r\n\r\n")
             /\ IsServerKey(log[i].data[8])
             /\ log[i].data[8].body.public_key = Public(sk)
             /\ log[i].data[8].body.public_key = HexDecode(log[i].data[6].chars)
             /\ SubSeq(s2c, 1, 8) = log[i].data
    /\ pc \in {"AwaitingClientInfo", "Authenticated", "Returned"} =>
          (Len(log) >= 2 /\ log[2].op = "write" /\ log[2].ok)

C7_Witness ==
    /\ pc = "AwaitingClientInfo" /\ Len(s2c) = 8
    /\ \E i \in 1..KeyLen : Public(sk)[i] < 16

\* C8: the key returned is the client key the accepted ClientInfo frame
\* carries; the mesh key returned is None exactly when the decrypted meshkey is
\* empty, and Some of that very string otherwise.
C8_ReturnedIdentity ==
    pc = "Returned" =>
       /\ IsClientInfo(ciBuf)
       /\ ret.pk = ciBuf.first.body.public_key
       /\ ret.meshkey = None <=> ciBuf.first.body.box.plain.meshkey = ""
       /\ ciBuf.first.body.box.plain.meshkey # ""
             => ret.meshkey = Some(ciBuf.first.body.box.plain.meshkey)

C8_Witness ==
    /\ pc = "Returned" /\ ret.meshkey = Some("mk")
    /\ ret.pk = Public("c2")

\* a frame read_server_key accepts
ValidServerKey(f) ==
    f.kind = "frame" /\ f.ty = "ServerKey" /\ f.decodes /\ f.body.magic = MAGIC

\* C9: exchange_keys writes ClientInfo only after it has read a ServerKey frame
\* that decodes and has the right magic; the ClientInfo is sealed to the key of
\* that frame, which is also the key returned; on any other first frame
\* exchange_keys fails and has written nothing.
C9_ExchangeKeys ==
    /\ \A j \in 1..Len(clog) :
          clog[j].op = "write" =>
             /\ j = 2
             /\ clog[1].op = "read" /\ clog[1].ok
             /\ ValidServerKey(clog[1].data[1])
             /\ clog[j].ok =>
                   /\ c2s = clog[j].data
                   /\ clog[j].data[1].ty = "ClientInfo"
                   /\ clog[j].data[1].body.public_key = Public(csk)
                   /\ clog[j].data[1].body.box.from = Public(csk)
                   /\ clog[j].data[1].body.box.to = clog[1].data[1].body.public_key
                   /\ clog[j].data[1].body.box.plain.meshkey
                         = (IF cmesh.some THEN cmesh.val ELSE "")
    /\ cpc = "Returned" =>
          /\ Len(clog) = 2 /\ clog[2].op = "write" /\ clog[2].ok
          /\ cret = clog[1].data[1].body.public_key
    /\ (Len(clog) >= 1 /\ clog[1].ok /\ ~ValidServerKey(clog[1].data[1])) =>
          /\ cpc = "Failed" /\ cerr \in {"Unexpected message", "Decode error", "invalid magic"}
          /\ Len(clog) = 1
    /\ cpc # "Returned" => (c2s = <<>> /\ cret = NoneKey)

C9_Witness ==
    /\ cpc = "Returned" /\ cmesh = Some("mk")
    /\ Len(c2s) = 1 /\ c2s[1].body.box.to = Public("s2")

C10_WrittenAtFailure ==
    pc = "Closed" =>
       /\ (Last(log).op = "read" /\ Last(log).by = "finalize_http_phase") => s2c = <<>>
       /\ (Last(log).op = "read" /\ Last(log).by = "read_client_info")
             => s2c = UpgradeResponse(sk)
       /\ err \in {"empty initiall message", "initial message too big", "parse error",
                   "incomplete request", "Utf8Error", "Unexpected Upgrade value",
                   "Unexpected Connection value"}
             => (s2c = <<>> /\ Len(log) = 1)
       /\ err \in {"Unexpected message", "Decode error", "decrypt error", "invalid payload"}
             => (s2c = UpgradeResponse(sk) /\ Len(log) = 3)

\* C10: a failed handshake writes nothing from the failure on: nothing at all
\* is written for an upgrade request that is rejected, and nothing after the
\* 101 response with the ServerKey frame when ClientInfo is rejected.
C10_NoBytesAfterFailure ==
    /\ []C10_WrittenAtFailure
    /\ [][pc = "Closed" => s2c' = s2c]_vars
    /\ [][(pc' = "Closed" /\ Last(log').op = "read") => s2c' = s2c]_vars

C10_Witness ==
    /\ pc = "Closed" /\ err = "Unexpected Connection value"
    /\ s2c = <<>>

-----------------------------------------------------------------------------
(* Termination of handle_handshake *)

\* how far along handle_handshake is: every step moves it up
Rank(p) ==
    CASE p = "AwaitingUpgrade" -> 1
      [] p = "UpgradeSent" -> 2
      [] p = "AwaitingClientInfo" -> 3
      [] p = "Authenticated" -> 4
      [] p = "Returned" -> 5
      [] p = "Closed" -> 5

Calls(op) == Cardinality({i \in 1..Len(log) : log[i].op = op})

\* the read handle_handshake waits in can return: bytes are there or the
\* stream has ended
ReadReturns == Total(c2s) - c2sOff > 0 \/ c2sClosed

C17_Calls ==
    /\ Calls("read") <= 2 /\ Calls("write") <= 2
    /\ \A i, j \in 1..Len(log) :
          (log[i].op = log[j].op /\ log[i].by = log[j].by) => i = j
    /\ \A i \in 1..Len(log) : ~log[i].ok => (i = Len(log) /\ pc = "Closed")
    /\ pc \in {"Returned", "Closed"} => Len(log) >= 1
    /\ (pc = "AwaitingUpgrade" /\ ReadReturns) => ENABLED FinalizeHttpRead
    /\ pc = "UpgradeSent" => ENABLED FinalizeHttpWrite
    /\ (pc = "AwaitingClientInfo" /\ ReadReturns) => ENABLED ReadClientInfo
    /\ pc = "Authenticated" => ENABLED WriteServerInfo

C17_Step ==
    /\ log' # log =>
          (Len(log') = Len(log) + 1 /\ Rank(pc') > Rank(pc) /\ Running)
    /\ pc' # pc => (log' # log /\ Rank(pc') > Rank(pc))

\* C17: handle_handshake makes at most two reads and two writes and no step
\* twice; every read or write that returns moves it one step on, a failed one
\* ends it, and whenever the read or write it waits in can return it has a
\* step to take, so it ends with Ok or Err once its calls return.
C17_NoRetry == []C17_Calls /\ [][C17_Step]_vars

C17_Witness ==
    /\ pc = "Closed" /\ Len(log) = 3 /\ ~log[3].ok
    /\ log[3].by = "read_client_info"
    /\ Total(c2s) - c2sOff > 0

-----------------------------------------------------------------------------
(* Fragmented delivery of the ClientInfo frame *)

\* the buffer starts a ClientInfo frame that decodes, decrypts and validates
\* once all of its bytes are there
StartsValidClientInfo(b, secret) ==
    /\ IsClientInfo(b)
    /\ b.first.decodes
    /\ CanOpen(b.first.body.box, secret, b.first.body.public_key)
    /\ b.first.body.box.plain.wellformed

ReachedAuthenticated == \E i \in 1..Len(path) : path[i] = "Authenticated"

\* C14: a valid ClientInfo frame is accepted however the transport delivers it
\* (in two or more reads, or longer than 1024 bytes), and a read of zero bytes
\* or of only a part of the frame never leads to Authenticated.
C14_WholeFrameRead ==
    ClientInfoRead =>
       /\ StartsValidClientInfo(ciBuf, sk) => ReachedAuthenticated
       /\ (ciBuf.n = 0 \/ ciBuf.have < ciBuf.first.len) => ~ReachedAuthenticated

-----------------------------------------------------------------------------
(* Errors of the frame-type match *)

\* read_server_key on the message it got
C12_ServerKey ==
    (Len(clog) >= 1 /\ clog[1].by = "read_server_key" /\ clog[1].ok) =>
       /\ clog[1].data[1].ty # "ServerKey" =>
             (cpc = "Failed" /\ cerr = "Unexpected message")
       /\ (clog[1].data[1].ty = "ServerKey" /\ ~clog[1].data[1].decodes) =>
             (cpc = "Failed" /\ cerr = "Decode error")

\* read_client_info on a buffer that holds a whole frame from its first byte
C12_ClientInfo ==
    (/\ ClientInfoRead /\ ciBuf.n > 0 /\ ciBuf.start = 0
     /\ ciBuf.first.kind = "frame" /\ ciBuf.have = ciBuf.first.len) =>
       /\ ciBuf.first.ty # "ClientInfo" =>
             (pc = "Closed" /\ err = "Unexpected message")
       /\ (ciBuf.first.ty = "ClientInfo" /\ ~ciBuf.first.decodes) =>
             (pc = "Closed" /\ err = "Decode error")

\* read_server_info on the message it got
C12_ServerInfo ==
    simsg # NoMsg =>
       /\ simsg.ty # "ServerInfo" =>
             (sipc = "Failed" /\ sierr = "Invalid frame type")
       /\ (simsg.ty = "ServerInfo" /\ ~simsg.decodes) =>
             (sipc = "Failed" /\ sierr \notin {"none", "Invalid frame type"})

\* C12: in read_server_key, read_client_info and read_server_info a frame of
\* another type than the expected one gives the unexpected-type error, a frame
\* of the expected type whose payload does not decode gives another error,
\* the decode error, and neither is reported as success.
C12_FrameTypeErrors == C12_ServerKey /\ C12_ClientInfo /\ C12_ServerInfo

-----------------------------------------------------------------------------
(* A client that pipelines frames behind its ClientInfo *)

\* messages the pipelining client sends in all: a request, ClientInfo, the rest
PipelineLen == 3

\* requests finalize_http_phase accepts when they arrive whole
PipelineRequests ==
    {r \in Requests :
        /\ r.syntax = "valid" /\ r.head = r.len /\ r.len < UPGRADE_MSG_SIZE
        /\ Len(r.headers) + r.nOther <= MAX_HEADERS
        /\ validate_headers(r.headers) = "ok"}

PipelineClientInfos ==
    {ClientInfoFrame(c, Public(s), None) : c \in ClientSecrets, s \in ServerSecrets}

\* the frames a client sends once it takes the handshake for done
PipelineFollowers == {f \in OtherFrames : f.ty \in {"WatchConns", "ForwardPacket"}}

\* the client writes its next message without waiting for the server
PipelineSends ==
    /\ Running /\ ~c2sClosed /\ nSent < PipelineLen
    /\ \E f \in (IF nSent = 0 THEN PipelineRequests
                ELSE IF nSent = 1 THEN PipelineClientInfos
                ELSE PipelineFollowers) :
         c2s' = Append(c2s, f)
    /\ nSent' = nSent + 1
    /\ UNCHANGED <<c2sOff, c2sClosed, s2c>>
    /\ UNCHANGED serverVars
    /\ UNCHANGED clientVars
    /\ UNCHANGED infoVars
    /\ UNCHANGED otherVars

NextPipeline ==
    \/ FinalizeHttpReadFails
    \/ FinalizeHttpRead
    \/ FinalizeHttpWriteFails
    \/ FinalizeHttpWrite
    \/ ReadClientInfoFails
    \/ ReadClientInfo
    \/ WriteServerInfoFails
    \/ WriteServerInfo
    \/ PipelineSends

SpecPipeline == Init /\ [][NextPipeline]_vars

\* C13: when read_client_info has read a whole ClientInfo frame, it has taken
\* the bytes of that frame from the stream and no more: what the client sent
\* behind the frame is still on the stream for the reader after the handshake.
C13_OneFrameConsumed ==
    (ClientInfoRead /\ IsClientInfo(ciBuf) /\ ciBuf.have = ciBuf.first.len) =>
       /\ ciBuf.n = ciBuf.first.len
       /\ nSent = PipelineLen => (c2s # <<>> /\ Last(c2s) \in PipelineFollowers)

-----------------------------------------------------------------------------
(* main and the lock around the service *)

\* connections the accept loop takes in all
MaxUnits == 2

SharedOps == {"lookup", "forward"}
ExclusiveOps == {"register", "unregister", "watch"}
Ops == SharedOps \cup ExclusiveOps

Units == 1..Len(unit)

Holders == {u \in Units : unit[u].st = "holding"}

\* faulty variant: a reader/writer lock, shared for lookup and forward
CanAcquireShared(u) ==
    IF unit[u].op \in SharedOps
    THEN \A v \in Holders : unit[v].op \in SharedOps
    ELSE Holders = {}

\* Mutex::lock of the Arc<Mutex<DerpService>> returns: nobody holds the guard
CanAcquire(u) == Holders = {}

\* what main and the units of the service leave alone
restVars == <<c2s, c2sOff, c2sClosed, nSent, s2c, hpc>>

MFail(reason) == mpc' = "failed" /\ merr' = reason

\* TcpListener::bind(&config.listen_on).await? fails
BindFails ==
    /\ mpc = "bind"
    /\ MFail("bind error")
    /\ UNCHANGED unit
    /\ UNCHANGED <<serverVars, clientVars, infoVars, restVars>>

\* TcpListener::bind(&config.listen_on).await?
Bind ==
    /\ mpc = "bind"
    /\ mpc' = "new"
    /\ UNCHANGED <<merr, unit>>
    /\ UNCHANGED <<serverVars, clientVars, infoVars, restVars>>

\* faulty variant: the error of DerpService::new is dropped and run is called
NewFailsIgnored ==
    /\ mpc = "new"
    /\ mpc' = "run" /\ merr' = "service error"
    /\ UNCHANGED unit
    /\ UNCHANGED <<serverVars, clientVars, infoVars, restVars>>

\* DerpService::new(config).await? fails
NewFails ==
    /\ mpc = "new"
    /\ MFail("service error")
    /\ UNCHANGED unit
    /\ UNCHANGED <<serverVars, clientVars, infoVars, restVars>>

\* DerpService::new(config).await? and the call of service.run(listener)
New ==
    /\ mpc = "new"
    /\ mpc' = "run"
    /\ UNCHANGED <<merr, unit>>
    /\ UNCHANGED <<serverVars, clientVars, infoVars, restVars>>

\* service.run(listener) returns an error, and main returns it
RunFails ==
    /\ mpc = "run"
    /\ MFail("run error")
    /\ UNCHANGED unit
    /\ UNCHANGED <<serverVars, clientVars, infoVars, restVars>>

\* service.run accepts a connection and starts its unit
Accept ==
    /\ mpc = "run" /\ Len(unit) < MaxUnits
    /\ unit' = Append(unit, [st |-> "idle", op |-> "none"])
    /\ UNCHANGED <<mpc, merr>>
    /\ UNCHANGED <<serverVars, clientVars, infoVars, restVars>>

\* a unit comes to an operation on the service and asks for the lock
Request(u) ==
    /\ mpc = "run" /\ unit[u].st = "idle"
    /\ \E op \in Ops : unit' = [unit EXCEPT ![u] = [st |-> "waiting", op |-> op]]
    /\ UNCHANGED <<mpc, merr>>
    /\ UNCHANGED <<serverVars, clientVars, infoVars, restVars>>

\* service.lock().await returns the guard
Acquire(u) ==
    /\ mpc = "run" /\ unit[u].st = "waiting"
    /\ CanAcquire(u)
    /\ unit' = [unit EXCEPT ![u].st = "holding"]
    /\ UNCHANGED <<mpc, merr>>
    /\ UNCHANGED <<serverVars, clientVars, infoVars, restVars>>

\* the operation is done and the guard is dropped
Release(u) ==
    /\ mpc = "run" /\ unit[u].st = "holding"
    /\ unit' = [unit EXCEPT ![u] = [st |-> "idle", op |-> "none"]]
    /\ UNCHANGED <<mpc, merr>>
    /\ UNCHANGED <<serverVars, clientVars, infoVars, restVars>>

InitService ==
    /\ mpc = "bind" /\ merr = "none" /\ unit = <<>>
    /\ sk = "s1" /\ pc = "idle" /\ path = <<>>
    /\ err = "none" /\ ret = NoRet /\ ci = NoRet
    /\ httpBuf = NoBuf /\ ciBuf = NoBuf /\ log = <<>>
    /\ c2s = <<>> /\ c2sOff = 0 /\ c2sClosed = FALSE /\ nSent = 0
    /\ s2c = <<>>
    /\ cpc = "idle" /\ csk = "c1" /\ cmesh = None
    /\ cserver = NoneKey /\ cerr = "none" /\ cret = NoneKey /\ clog = <<>>
    /\ sipc = "idle" /\ sierr = "none" /\ simsg = NoMsg /\ hpc = "idle"

NextService ==
    \/ BindFails
    \/ Bind
    \/ NewFails
    \/ New
    \/ RunFails
    \/ Accept
    \/ \E u \in Units : Request(u)
    \/ \E u \in Units : Acquire(u)
    \/ \E u \in Units : Release(u)

SpecService == InitService /\ [][NextService]_vars

\* C11 as the spec has it: a waiting lookup or forward gets the lock when
\* nothing but lookups and forwards hold it, and register, unregister and
\* watch hold it alone.
C11_ReaderWriterLock ==
    /\ \A u \in Units :
          (/\ unit[u].st = "waiting" /\ unit[u].op \in SharedOps
           /\ \A v \in Holders : unit[v].op \in SharedOps) => CanAcquire(u)
    /\ \A u, v \in Holders :
          (unit[u].op \in ExclusiveOps \/ unit[v].op \in ExclusiveOps) => u = v

\* C11: the service is behind a mutual-exclusion lock: at any time at most one
\* unit holds it, whatever its operation, so a lookup or forward of one unit
\* waits while a lookup or forward of another holds the lock.
C11_ExclusiveLock ==
    /\ \A u, v \in Holders : u = v
    /\ \A u \in Units : (unit[u].st = "waiting" /\ Holders # {}) => ~ENABLED Acquire(u)

C11_Witness ==
    \E u, v \in Units :
       /\ unit[u].st = "holding" /\ unit[u].op = "lookup"
       /\ unit[v].st = "waiting" /\ unit[v].op = "forward"

StartupErrors == {"bind error", "service error"}

C15_State ==
    /\ merr \in StartupErrors => (mpc = "failed" /\ unit = <<>>)
    /\ unit # <<>> => mpc \in {"run", "failed"}
    /\ mpc = "run" => merr = "none"

C15_Step ==
    /\ (mpc' = "new" /\ mpc # "new") => mpc = "bind"
    /\ (mpc' = "run" /\ mpc # "run") => mpc = "new"
    /\ (mpc \in {"bind", "new"} /\ merr' # "none") => (mpc' = "failed" /\ unit' = <<>>)
    /\ Len(unit') > Len(unit) => (mpc = "run" /\ merr = "none")
    /\ mpc = "failed" => UNCHANGED <<mpc, merr, unit>>

\* C15: main calls service.run only after TcpListener::bind and
\* DerpService::new have both returned Ok; when either fails main returns that
\* error at once, and no connection is accepted before or after.
C15_NoPartialStart == []C15_State /\ [][C15_Step]_vars

C15_Witness == mpc = "failed" /\ merr = "service error" /\ unit = <<>>

-----------------------------------------------------------------------------
(* An honest client against handle_handshake *)

RECURSIVE SkipResponse(_)
\* the stream behind the blank line that ends the HTTP response
SkipResponse(q) ==
    IF q = <<>> \/ Head(q).kind = "frame" THEN q ELSE SkipResponse(Tail(q))

\* the client writes its upgrade request
HonestSendsRequest ==
    /\ hpc = "send_request"
    /\ \E r \in PipelineRequests : c2s' = Append(c2s, r)
    /\ hpc' = "consume_101"
    /\ UNCHANGED <<c2sOff, c2sClosed, nSent, s2c, mpc, merr, unit>>
    /\ UNCHANGED serverVars
    /\ UNCHANGED clientVars
    /\ UNCHANGED infoVars

\* the client reads the 101 response up to its blank line and calls
\* exchange_keys
HonestConsumes101 ==
    /\ hpc = "consume_101"
    /\ \E i \in 1..Len(s2c) : s2c[i] = Text("\r\n\r\n")
    /\ s2c' = SkipResponse(s2c)
    /\ hpc' = "exchange_keys"
    /\ cpc' = "read_server_key"
    /\ UNCHANGED <<c2s, c2sOff, c2sClosed, nSent, mpc, merr, unit>>
    /\ UNCHANGED <<csk, cmesh, cserver, cerr, cret, clog>>
    /\ UNCHANGED serverVars
    /\ UNCHANGED infoVars

InitHonest ==
    /\ sk \in ServerSecrets
    /\ pc = "AwaitingUpgrade" /\ path = <<"AwaitingUpgrade">>
    /\ err = "none" /\ ret = NoRet /\ ci = NoRet
    /\ httpBuf = NoBuf /\ ciBuf = NoBuf /\ log = <<>>
    /\ c2s = <<>> /\ c2sOff = 0 /\ c2sClosed = FALSE /\ nSent = 0
    /\ s2c = <<>>
    /\ csk \in ClientSecrets /\ cmesh \in {None, Some("mk")}
    /\ cpc = "idle" /\ hpc = "send_request"
    /\ cserver = NoneKey /\ cerr = "none" /\ cret = NoneKey /\ clog = <<>>
    /\ sipc = "idle" /\ sierr = "none" /\ simsg = NoMsg
    /\ mpc = "idle" /\ merr = "none" /\ unit = <<>>

NextHonest ==
    \/ HonestSendsRequest
    \/ FinalizeHttpRead
    \/ FinalizeHttpWrite
    \/ HonestConsumes101
    \/ ReadServerKey
    \/ WriteClientInfo
    \/ ReadClientInfo
    \/ WriteServerInfo
    \/ ReadServerInfo

SpecHonest == InitHonest /\ [][NextHonest]_vars

ServerInRead ==
    pc \in {"AwaitingUpgrade", "AwaitingClientInfo"} /\ Total(c2s) - c2sOff = 0

ClientInRead ==
    /\ s2c = <<>>
    /\ \/ hpc = "consume_101"
       \/ cpc = "read_server_key"
       \/ (cpc = "Returned" /\ sipc = "idle")

BothComplete == pc = "Returned" /\ cpc = "Returned" /\ sipc = "Returned"

C16_NoFailure == pc # "Closed" /\ cpc # "Failed" /\ sipc # "Failed"

C16_NoDeadlock == ~(ServerInRead /\ ClientInRead)

C16_Completes == ~ENABLED NextHonest => BothComplete

C16_Keys ==
    /\ pc = "Returned" => ret.pk = Public(csk)
    /\ cpc = "Returned" => cret = Public(sk)

\* C16: an honest client against handle_handshake: no step of either side
\* fails, the two sides are never both waiting in a read, the run only ends
\* with both sides complete, and then the key the server returns is the
\* client's public key and the key exchange_keys returns is the server's.
C16_HonestHandshake ==
    C16_NoFailure /\ C16_NoDeadlock /\ C16_Completes /\ C16_Keys

====
